---- MODULE Spec2Model ----
(***************************************************************************)
(* A model of pylastic (src/main.py): the Elasticsearch request builder,   *)
(* the mapping flattener, the hit flattener / result table builder, the    *)
(* sortable results grid, the console session's input line and the index / *)
(* field checklists of the search form.                                    *)
(*                                                                         *)
(* Text that goes over the wire (the JSON request body) is a sequence of   *)
(* one-character strings.  Field names and field paths are TLA+ strings,   *)
(* joined with \o exactly where the code joins them with '+'.              *)
(***************************************************************************)
EXTENDS Integers, Sequences, FiniteSets, TLC

VARIABLES
    \* request_builder and its round trip through the JSON text
    rb_pc,            \* "start" | "built" | "loaded"
    search_term,      \* the search term, a sequence of characters
    fields,           \* the comma separated fields string, a sequence of characters
    body_json,        \* the text returned by request_builder
    body_doc,         \* the document obtained by deserializing body_json
    \* index_field_names
    sch_pc,           \* "start" | "done"
    requestjson,      \* the mapping response: sequence of <<index name, property dict>>
    fieldlist,        \* the list index_field_names returns
    \* simple_query_search
    sq_pc,            \* "start" | "done"
    pandas_build,     \* how the installed pandas orders the columns a row adds
    response,         \* the hits of the search response: sequence of _source dicts
    results,          \* the DataFrame simple_query_search returns
    \* the results grid (ResultsGrid) and the window around it
    gui,              \* "idle" | "running"
    search_results,   \* ResultsGrid.search_results, a DataFrame
    treeview,         \* the columns and rows the Treeview shows
    heading_cmd,      \* per Treeview column, the handler bound to its heading
    console_open,     \* a PandasSession window is open
    last_click,       \* history: the column and direction of the last heading click
    streak,           \* history: clicks on that column since it was last rebound
    before_sort,      \* history: the rows as they were before the last click
    \* the console session (PandasSession)
    con_pc,           \* "idle" | "session" | "exited"
    entry_text,       \* the text in the session's entry
    console,          \* the lines pushed to the InteractiveConsole so far
    sent,             \* history: the entry text and the console at the last Return
    \* the search form (SearchBuilder) and its two checklists
    chk_pc,           \* "idle" | "running"
    server_indices,   \* the index names the server lists
    indices_checklist,\* slaves() of indices.checklist: sequence of checkboxes
    fields_checklist, \* slaves() of fields.checklist: sequence of checkboxes
    self_all,         \* the checklist whose "All" checkbox self.all refers to
    get_fields_state, \* state of the Get Field Names button
    selectors         \* the index and field selectors of the last search

rb_vars  == <<rb_pc, search_term, fields, body_json, body_doc>>
sch_vars == <<sch_pc, requestjson, fieldlist>>
sq_vars  == <<sq_pc, pandas_build, response, results>>
grid_vars == <<gui, search_results, treeview, heading_cmd, console_open,
               last_click, streak, before_sort>>
con_vars == <<con_pc, entry_text, console, sent>>
chk_vars == <<chk_pc, server_indices, indices_checklist, fields_checklist, self_all,
              get_fields_state, selectors>>
vars == <<rb_vars, sch_vars, sq_vars, grid_vars, con_vars, chk_vars>>

(***************************************************************************)
(* Bounds of the model.                                                    *)
(***************************************************************************)
MaxTermLen == 2
MaxDepth == 3        \* deepest nesting of a generated property tree
MaxDocDepth == 4     \* deepest nesting of a generated _source document
MaxHits == 2         \* most hits in a generated search response
MaxGridHits == 3     \* most hits of a response shown in the grid
MaxClicks == 3       \* most consecutive clicks on one column heading
MaxSends == 3        \* most lines the entry of a console session pushes
MaxIndices == 2      \* most index names the server lists

(***************************************************************************)
(* Generic helpers.                                                        *)
(***************************************************************************)
SeqsUpTo(S, n) == UNION {[1..k -> S] : k \in 0..n}

Range(s) == {s[i] : i \in 1..Len(s)}

RECURSIVE Flatten(_)
Flatten(ss) == IF ss = <<>> THEN <<>> ELSE Head(ss) \o Flatten(Tail(ss))

(***************************************************************************)
(* JSON values.  A value carries a tag so that documents of mixed shape    *)
(* can be held in one variable.                                            *)
(***************************************************************************)
JStr(s)  == [t |-> "str", v |-> s]
JNum(n)  == [t |-> "num", v |-> n]
JArr(xs) == [t |-> "arr", v |-> xs]
JObj(ps) == [t |-> "obj", v |-> ps]     \* ps: sequence of <<key, value>>, insertion order
JError   == [t |-> "error", v |-> <<>>]

\* dict.get(key): the value stored under key, or JError when absent
RECURSIVE PairsGet(_, _)
PairsGet(ps, key) ==
    IF ps = <<>> THEN JError
    ELSE IF Head(ps)[1] = key THEN Head(ps)[2]
    ELSE PairsGet(Tail(ps), key)

JGet(doc, key) == IF doc.t = "obj" THEN PairsGet(doc.v, key) ELSE JError

(***************************************************************************)
(* json.dumps with its defaults: ensure_ascii=True, separators ", " / ": " *)
(***************************************************************************)
HexDigits == <<"0","1","2","3","4","5","6","7","8","9","a","b","c","d","e","f">>

\* ord() of the characters that the encoder does not copy verbatim
Ord(c) == CASE c = "\n" -> 10
            [] c = "\"" -> 34
            [] c = "\\" -> 92
            [] c = "é"  -> 233
            [] c = "."  -> 46
            [] c = "a"  -> 97
            [] c = "b"  -> 98
            [] OTHER    -> 0

Escaped == {"\n", "\"", "\\", "é"}

Hex4(n) == << HexDigits[((n \div 4096) % 16) + 1], HexDigits[((n \div 256) % 16) + 1],
              HexDigits[((n \div 16) % 16) + 1],   HexDigits[(n % 16) + 1] >>

\* json.encoder.py_encode_basestring_ascii, one character
EscapeChar(c) ==
    CASE c = "\"" -> <<"\\", "\"">>
      [] c = "\\" -> <<"\\", "\\">>
      [] c = "\n" -> <<"\\", "n">>
      [] c \in Escaped \ {"\"", "\\", "\n"} -> <<"\\", "u">> \o Hex4(Ord(c))
      [] OTHER -> <<c>>

EncodeString(s) == <<"\"">> \o Flatten([i \in 1..Len(s) |-> EscapeChar(s[i])]) \o <<"\"">>

RECURSIVE EncodeNat(_)
EncodeNat(n) == IF n < 10 THEN <<HexDigits[n + 1]>>
                ELSE EncodeNat(n \div 10) \o <<HexDigits[(n % 10) + 1]>>

RECURSIVE json_dumps(_)
RECURSIVE DumpItems(_)
RECURSIVE DumpPairs(_)
DumpItems(xs) ==
    IF xs = <<>> THEN <<>>
    ELSE json_dumps(Head(xs))
         \o (IF Len(xs) > 1 THEN <<",", " ">> ELSE <<>>) \o DumpItems(Tail(xs))
DumpPairs(ps) ==
    IF ps = <<>> THEN <<>>
    ELSE EncodeString(Head(ps)[1]) \o <<":", " ">> \o json_dumps(Head(ps)[2])
         \o (IF Len(ps) > 1 THEN <<",", " ">> ELSE <<>>) \o DumpPairs(Tail(ps))
json_dumps(x) ==
    CASE x.t = "str" -> EncodeString(x.v)
      [] x.t = "num" -> EncodeNat(x.v)
      [] x.t = "arr" -> <<"[">> \o DumpItems(x.v) \o <<"]">>
      [] x.t = "obj" -> <<"{">> \o DumpPairs(x.v) \o <<"}">>

(***************************************************************************)
(* json.loads: the recursive descent decoder of json.decoder / scanner.    *)
(* A parse result is [ok, v, i]: success, the value, the next position.    *)
(***************************************************************************)
Fail == [ok |-> FALSE, v |-> JError, i |-> 0]
Done(val, next) == [ok |-> TRUE, v |-> val, i |-> next]

Whitespace == {" ", "\n"}
Digits == {"0","1","2","3","4","5","6","7","8","9"}

RECURSIVE SkipWs(_, _)
SkipWs(s, i) == IF i <= Len(s) /\ s[i] \in Whitespace THEN SkipWs(s, i + 1) ELSE i

HexVal(c) == IF \E k \in 1..16 : HexDigits[k] = c
             THEN (CHOOSE k \in 1..16 : HexDigits[k] = c) - 1
             ELSE -1

\* chr() on the code points Ord knows
Chr(n) == IF \E c \in Escaped : Ord(c) = n
          THEN <<CHOOSE c \in Escaped : Ord(c) = n>>
          ELSE <<>>

\* json.decoder.BACKSLASH
Unescape(e) == CASE e = "\"" -> <<"\"">>
                 [] e = "\\" -> <<"\\">>
                 [] e = "/"  -> <<"/">>
                 [] e = "n"  -> <<"\n">>
                 [] OTHER    -> <<>>

\* json.decoder.py_scanstring; i is the position after the opening quote
RECURSIVE ScanString(_, _, _)
ScanString(s, i, acc) ==
    IF i > Len(s) THEN Fail
    ELSE IF s[i] = "\"" THEN Done(acc, i + 1)
    ELSE IF s[i] = "\\" THEN
        IF i + 1 > Len(s) THEN Fail
        ELSE IF s[i + 1] = "u" THEN
            IF i + 5 > Len(s) \/ \E k \in 2..5 : HexVal(s[i + k]) < 0 THEN Fail
            ELSE LET n == HexVal(s[i + 2]) * 4096 + HexVal(s[i + 3]) * 256
                          + HexVal(s[i + 4]) * 16 + HexVal(s[i + 5])
                 IN  IF Chr(n) = <<>> THEN Fail ELSE ScanString(s, i + 6, acc \o Chr(n))
        ELSE IF Unescape(s[i + 1]) = <<>> THEN Fail
        ELSE ScanString(s, i + 2, acc \o Unescape(s[i + 1]))
    ELSE IF s[i] = "\n" THEN Fail          \* strict: no raw control character
    ELSE ScanString(s, i + 1, acc \o <<s[i]>>)

RECURSIVE ScanNumber(_, _, _)
ScanNumber(s, i, acc) ==
    IF i <= Len(s) /\ s[i] \in Digits
    THEN ScanNumber(s, i + 1, acc * 10 + HexVal(s[i]))
    ELSE Done(JNum(acc), i)

RECURSIVE ParseValue(_, _)
RECURSIVE ParseArray(_, _, _)
RECURSIVE ParseObject(_, _, _)

\* json.decoder.JSONArray; i is the position of the next item
ParseArray(s, i, acc) ==
    LET item == ParseValue(s, i) IN
    IF ~item.ok THEN Fail
    ELSE LET j == SkipWs(s, item.i) IN
         IF j > Len(s) THEN Fail
         ELSE IF s[j] = "]" THEN Done(JArr(Append(acc, item.v)), j + 1)
         ELSE IF s[j] = "," THEN ParseArray(s, SkipWs(s, j + 1), Append(acc, item.v))
         ELSE Fail

\* json.decoder.JSONObject; i is the position of the next key's opening quote
ParseObject(s, i, acc) ==
    IF i > Len(s) \/ s[i] # "\"" THEN Fail
    ELSE LET key == ScanString(s, i + 1, <<>>) IN
    IF ~key.ok THEN Fail
    ELSE LET c == SkipWs(s, key.i) IN
    IF c > Len(s) \/ s[c] # ":" THEN Fail
    ELSE LET val == ParseValue(s, SkipWs(s, c + 1)) IN
    IF ~val.ok THEN Fail
    ELSE LET j == SkipWs(s, val.i)
             \* a repeated key keeps its place and takes the later value
             pairs == IF \E k \in 1..Len(acc) : acc[k][1] = key.v
                      THEN [k \in 1..Len(acc) |->
                               IF acc[k][1] = key.v THEN <<key.v, val.v>> ELSE acc[k]]
                      ELSE Append(acc, <<key.v, val.v>>)
         IN
    IF j > Len(s) THEN Fail
    ELSE IF s[j] = "}" THEN Done(JObj(pairs), j + 1)
    ELSE IF s[j] = "," THEN ParseObject(s, SkipWs(s, j + 1), pairs)
    ELSE Fail

\* json.scanner.py_make_scanner._scan_once
ParseValue(s, i) ==
    IF i > Len(s) THEN Fail
    ELSE IF s[i] = "\"" THEN LET r == ScanString(s, i + 1, <<>>)
                             IN  IF r.ok THEN Done(JStr(r.v), r.i) ELSE Fail
    ELSE IF s[i] = "{" THEN
        LET j == SkipWs(s, i + 1) IN
        IF j <= Len(s) /\ s[j] = "}" THEN Done(JObj(<<>>), j + 1) ELSE ParseObject(s, j, <<>>)
    ELSE IF s[i] = "[" THEN
        LET j == SkipWs(s, i + 1) IN
        IF j <= Len(s) /\ s[j] = "]" THEN Done(JArr(<<>>), j + 1) ELSE ParseArray(s, j, <<>>)
    ELSE IF s[i] \in Digits THEN ScanNumber(s, i, 0)
    ELSE Fail

\* json.loads: one value, surrounded by optional whitespace, nothing after it
json_loads(s) ==
    LET r == ParseValue(s, SkipWs(s, 1)) IN
    IF r.ok /\ SkipWs(s, r.i) = Len(s) + 1 THEN r.v ELSE JError

(***************************************************************************)
(* request_builder (src/main.py:18-28)                                     *)
(***************************************************************************)
\* str.split(','): always at least one piece; "" splits to [""]
RECURSIVE SplitFrom(_, _, _)
SplitFrom(s, i, cur) ==
    IF i > Len(s) THEN <<cur>>
    ELSE IF s[i] = "," THEN <<cur>> \o SplitFrom(s, i + 1, <<>>)
    ELSE SplitFrom(s, i + 1, Append(cur, s[i]))

split_comma(s) == SplitFrom(s, 1, <<>>)

K_source      == <<"_","s","o","u","r","c","e">>
K_size        == <<"s","i","z","e">>
K_query       == <<"q","u","e","r","y">>
K_multi_match == <<"m","u","l","t","i","_","m","a","t","c","h">>

DefaultSize == 100

\* a builder that mixes up its two arguments
request_body_swapped(term, flds) ==
    LET query == JObj(<< <<K_multi_match, JObj(<< <<K_query, JStr(flds)>> >>)>> >>)
        pieces == split_comma(term)
    IN  JObj(<< <<K_source, JArr([i \in 1..Len(pieces) |-> JStr(pieces[i])])>>,
                <<K_size, JNum(DefaultSize)>>,
                <<K_query, query>> >>)

\* the body dict, keys in the order the code inserts them
request_body(term, flds) ==
    LET query == JObj(<< <<K_multi_match, JObj(<< <<K_query, JStr(term)>> >>)>> >>)
        pieces == split_comma(flds)
    IN  JObj(<< <<K_source, JArr([i \in 1..Len(pieces) |-> JStr(pieces[i])])>>,
                <<K_size, JNum(DefaultSize)>>,
                <<K_query, query>> >>)

request_builder(term, flds) == json_dumps(request_body(term, flds))

TermChars == {"a", "\"", "\\", ",", "\n", "é"}

\* what the fields selector hands over: "*", nothing checked, or joined names
FieldsInputs == { <<>>, <<"*">>, <<"a">>, <<"a", ",", "b">>,
                  <<"u", ".", "n", ",", "t", "s">>, <<"@", "t", ",", "a", ",", "b">> }

RBInit ==
    /\ rb_pc = "start"
    /\ search_term \in SeqsUpTo(TermChars, MaxTermLen)
    /\ fields \in FieldsInputs
    /\ body_json = <<>>
    /\ body_doc = JError

RBIdle ==
    /\ rb_pc = "idle"
    /\ search_term = <<>>
    /\ fields = <<>>
    /\ body_json = <<>>
    /\ body_doc = JError

\* simple_query_search hands the result of request_builder to the transport
BuildRequest ==
    /\ rb_pc = "start"
    /\ body_json' = request_builder(search_term, fields)
    /\ rb_pc' = "built"
    /\ UNCHANGED <<search_term, fields, body_doc>>
    /\ UNCHANGED <<sch_vars, sq_vars, grid_vars, con_vars, chk_vars>>

\* the receiving side deserializes the body
LoadRequest ==
    /\ rb_pc = "built"
    /\ body_doc' = json_loads(body_json)
    /\ rb_pc' = "loaded"
    /\ UNCHANGED <<search_term, fields, body_json>>
    /\ UNCHANGED <<sch_vars, sq_vars, grid_vars, con_vars, chk_vars>>

(***************************************************************************)
(* index_field_names (src/main.py:38-55)                                   *)
(*                                                                         *)
(* A property dict is a sequence of nodes in document order, with distinct *)
(* names.  A node is [name, hasProps, props]: hasProps says whether the    *)
(* node's descriptor has a 'properties' key, props is that nested dict.    *)
(***************************************************************************)
Leaf(n)      == [name |-> n, hasProps |-> FALSE, props |-> <<>>]
Group(n, ps) == [name |-> n, hasProps |-> TRUE,  props |-> ps]

\* a flattener that forgets the parent's name
RECURSIVE fields_of_mappings_noprefix(_)
fields_of_mappings_noprefix(mappings) ==
    IF mappings = <<>> THEN <<>>
    ELSE LET f == Head(mappings) IN
         (IF f.hasProps
          THEN [k \in 1..Len(f.props) |-> f.props[k].name]
          ELSE <<f.name>>)
         \o fields_of_mappings_noprefix(Tail(mappings))

\* lines 49-54: one index's property dict
RECURSIVE fields_of_mappings(_)
fields_of_mappings(mappings) ==
    IF mappings = <<>> THEN <<>>
    ELSE LET f == Head(mappings) IN
         (IF f.hasProps
          THEN [k \in 1..Len(f.props) |-> f.name \o "." \o f.props[k].name]
          ELSE <<f.name>>)
         \o fields_of_mappings(Tail(mappings))

\* lines 44-55: every index of the response, appended to one list
RECURSIVE index_field_names(_)
index_field_names(rj) ==
    IF rj = <<>> THEN <<>>
    ELSE fields_of_mappings(Head(rj)[2]) \o index_field_names(Tail(rj))

FieldNames == {"a", "b"}

IsInjective(s) == \A i, j \in 1..Len(s) : s[i] = s[j] => i = j

\* property dicts whose top is at `level` and that nest no deeper than `last`:
\* distinct keys in either order; levels up to `wide` hold up to two keys,
\* deeper ones at most one
RECURSIVE PropDicts(_, _, _)
PropDicts(level, last, wide) ==
    LET below == IF level < last THEN PropDicts(level + 1, last, wide) ELSE {}
        nodes == {Leaf(n) : n \in FieldNames}
                     \cup {Group(n, p) : n \in FieldNames, p \in below}
        pairs == IF level <= wide
                 THEN {xy \in {<<x, y>> : x \in nodes, y \in nodes} : xy[1].name # xy[2].name}
                 ELSE {}
    IN  {<<>>} \cup {<<x>> : x \in nodes} \cup pairs

\* trees with one level of grouping, two keys wide at both levels
ShallowTrees == PropDicts(1, 2, 2)

\* one index with a shallow or a deep tree, or two indices with shallow trees
MappingResponses ==
    { << <<"i1", p>> >> : p \in ShallowTrees \cup PropDicts(1, MaxDepth, 1) }
        \cup { << <<"i1", p>>, <<"i2", q>> >> : p \in ShallowTrees, q \in ShallowTrees }

SchInit ==
    /\ sch_pc = "start"
    /\ requestjson \in MappingResponses
    /\ fieldlist = <<>>

SchIdle ==
    /\ sch_pc = "idle"
    /\ requestjson = <<>>
    /\ fieldlist = <<>>

IndexFieldNames ==
    /\ sch_pc = "start"
    /\ fieldlist' = index_field_names(requestjson)
    /\ sch_pc' = "done"
    /\ UNCHANGED requestjson
    /\ UNCHANGED <<rb_vars, sq_vars, grid_vars, con_vars, chk_vars>>

(***************************************************************************)
(* simple_query_search (src/main.py:57-83)                                 *)
(*                                                                         *)
(* Keys and field paths of hits are sequences of characters, so that the   *)
(* paths can be compared the way pandas sorts column labels.  A dict is a  *)
(* sequence of [key, v] entries in insertion order with distinct keys; a   *)
(* value v is a number, a nested dict, or NaN (a missing DataFrame cell).  *)
(***************************************************************************)
Scalar(n)   == [kind |-> "num",  val |-> n, items |-> <<>>]
Dict(items) == [kind |-> "dict", val |-> 0, items |-> items]
NaN         == [kind |-> "nan",  val |-> 0, items |-> <<>>]
Entry(k, v) == [key |-> k, v |-> v]

Keys(d) == [i \in 1..Len(d) |-> d[i].key]
HasKey(d, k) == \E i \in 1..Len(d) : d[i].key = k
Lookup(d, k) == d[CHOOSE i \in 1..Len(d) : d[i].key = k].v

\* an assignment that leaves a key already present alone
DictSet_keepfirst(d, k, v) ==
    IF HasKey(d, k) THEN d ELSE Append(d, Entry(k, v))

\* d[k] = v: a key already present keeps its place and takes the new value
DictSet(d, k, v) ==
    IF HasKey(d, k)
    THEN [i \in 1..Len(d) |-> IF d[i].key = k THEN Entry(k, v) ELSE d[i]]
    ELSE Append(d, Entry(k, v))

Dot == <<".">>

\* lines 76-77: the entries of a dict nested twice, stored whatever they are
RECURSIVE put_ssf(_, _, _)
put_ssf(hitdict, prefix, items) ==
    IF items = <<>> THEN hitdict
    ELSE put_ssf(DictSet(hitdict, prefix \o Dot \o Head(items).key, Head(items).v),
                 prefix, Tail(items))

\* lines 74-79: the entries of a dict nested once
RECURSIVE put_sf(_, _, _)
put_sf(hitdict, f, items) ==
    IF items = <<>> THEN hitdict
    ELSE LET sf == Head(items) IN
         put_sf(IF sf.v.kind = "dict"
                THEN put_ssf(hitdict, f \o Dot \o sf.key, sf.v.items)
                ELSE DictSet(hitdict, f \o Dot \o sf.key, sf.v),
                f, Tail(items))

\* lines 72-81: the entries of _source
RECURSIVE put_f(_, _)
put_f(hitdict, items) ==
    IF items = <<>> THEN hitdict
    ELSE LET f == Head(items) IN
         put_f(IF f.v.kind = "dict"
               THEN put_sf(hitdict, f.key, f.v.items)
               ELSE DictSet(hitdict, f.key, f.v),
               Tail(items))

\* lines 67-81: the flattened row of one hit
hit_flatten(source) == put_f(<<>>, source)

\* comparison of column labels: Python string order, by code point
RECURSIVE LexLess(_, _)
LexLess(x, y) ==
    IF y = <<>> THEN FALSE
    ELSE IF x = <<>> THEN TRUE
    ELSE IF Ord(Head(x)) # Ord(Head(y)) THEN Ord(Head(x)) < Ord(Head(y))
    ELSE LexLess(Tail(x), Tail(y))

RECURSIVE InsertSorted(_, _)
InsertSorted(sorted, k) ==
    IF sorted = <<>> THEN <<k>>
    ELSE IF LexLess(k, Head(sorted)) THEN <<k>> \o sorted
    ELSE <<Head(sorted)>> \o InsertSorted(Tail(sorted), k)

RECURSIVE SortLabels(_)
SortLabels(ks) ==
    IF ks = <<>> THEN <<>>
    ELSE InsertSorted(SortLabels(SubSeq(ks, 1, Len(ks) - 1)), ks[Len(ks)])

\* The code runs on pandas 1.0 to 1.5 (sort_values(ignore_index=) needs 1.0,
\* DataFrame.append is gone in 2.0).  The labels a dict adds to the frame are
\* Series(dict).index.difference(columns) up to 1.3, which sorts them (from 1.3
\* on not when the frame has no column yet), and the unsorted union of concat
\* from 1.4 on.
PandasBuilds == {"sorts", "sorts_unless_empty", "keeps_order"}

new_labels(columns, hitdict, build) ==
    LET absent(k) == k \notin Range(columns)
        fresh == SelectSeq(Keys(hitdict), absent)
    IN  CASE build = "sorts" -> SortLabels(fresh)
          [] build = "sorts_unless_empty" ->
                 IF columns = <<>> THEN fresh ELSE SortLabels(fresh)
          [] build = "keeps_order" -> fresh

EmptyFrame == [columns |-> <<>>, rows |-> <<>>]

\* an append that drops a row the frame already holds
df_append_dedupe(df, hitdict, build) ==
    LET added    == new_labels(df.columns, hitdict, build)
        combined == df.columns \o added
        widen(row) == row \o [i \in 1..Len(added) |-> NaN]
        newrow   == [i \in 1..Len(combined) |->
                        IF HasKey(hitdict, combined[i])
                        THEN Lookup(hitdict, combined[i]) ELSE NaN]
        old      == [r \in 1..Len(df.rows) |-> widen(df.rows[r])]
    IN  [columns |-> combined,
         rows    |-> IF newrow \in Range(old) THEN old ELSE Append(old, newrow)]

\* line 82: results.append(hitdict, ignore_index=True).  A row is a sequence
\* of cells aligned with the columns; a column the row lacks holds NaN.
df_append(df, hitdict, build) ==
    LET added    == new_labels(df.columns, hitdict, build)
        combined == df.columns \o added
        widen(row) == row \o [i \in 1..Len(added) |-> NaN]
        newrow   == [i \in 1..Len(combined) |->
                        IF HasKey(hitdict, combined[i])
                        THEN Lookup(hitdict, combined[i]) ELSE NaN]
    IN  [columns |-> combined,
         rows    |-> Append([r \in 1..Len(df.rows) |-> widen(df.rows[r])], newrow)]

\* lines 65-83: one row per hit, in the order of the response
RECURSIVE project_hits(_, _, _)
project_hits(df, hits, build) ==
    IF hits = <<>> THEN df
    ELSE project_hits(df_append(df, hit_flatten(Head(hits)), build), Tail(hits), build)

simple_query_search(hits, build) == project_hits(EmptyFrame, hits, build)

KA  == <<"a">>
KB  == <<"b">>
KAB == <<"a", ".", "b">>

ScalarValues == {Scalar(1), Scalar(2)}

DictsOver(orders, values) ==
    UNION { { [i \in 1..Len(ks) |-> Entry(ks[i], c[i])] : c \in [1..Len(ks) -> values] }
            : ks \in orders }

Orders(names, width) == {ks \in SeqsUpTo(names, width) : IsInjective(ks)}

\* documents with at most one level of nesting; a top-level key may hold a dot
FlatDocs ==
    LET inner == DictsOver(Orders({KA, KB}, 2), ScalarValues)
    IN  DictsOver(Orders({KA, KB, KAB}, 2), ScalarValues \cup {Dict(d) : d \in inner})

\* documents of one key per level, nested up to `last` levels
RECURSIVE ChainDocs(_, _)
ChainDocs(level, last) ==
    LET below == IF level < last THEN {Dict(d) : d \in ChainDocs(level + 1, last)} ELSE {}
    IN  DictsOver(Orders({KA, KB}, 1), ScalarValues \cup below)

\* the documents of responses with several hits
RowDocs ==
    { <<>>,
      <<Entry(KA, Scalar(1))>>, <<Entry(KB, Scalar(1))>>, <<Entry(KB, Scalar(2))>>,
      <<Entry(KB, Scalar(1)), Entry(KA, Scalar(2))>>,
      <<Entry(KA, Scalar(1)), Entry(KB, Scalar(2))>>,
      <<Entry(KA, Dict(<<Entry(KA, Scalar(1))>>))>>,
      <<Entry(KB, Dict(<<Entry(KB, Scalar(1)), Entry(KA, Scalar(2))>>))>>,
      <<Entry(KB, Scalar(2)), Entry(KA, Dict(<<Entry(KB, Scalar(1))>>))>> }

SearchResponses ==
    { <<d>> : d \in FlatDocs \cup ChainDocs(1, MaxDocDepth) }
        \cup SeqsUpTo(RowDocs, MaxHits)

SQInit ==
    /\ sq_pc = "start"
    /\ pandas_build \in PandasBuilds
    /\ response \in SearchResponses
    /\ results = EmptyFrame

SQIdle ==
    /\ sq_pc = "idle"
    /\ pandas_build = "keeps_order"
    /\ response = <<>>
    /\ results = EmptyFrame

SimpleQuerySearch ==
    /\ sq_pc = "start"
    /\ results' = simple_query_search(response, pandas_build)
    /\ sq_pc' = "done"
    /\ UNCHANGED <<pandas_build, response>>
    /\ UNCHANGED <<rb_vars, sch_vars, grid_vars, con_vars, chk_vars>>

(***************************************************************************)
(* ResultsGrid (src/main.py:246-314) and the handlers that reach it        *)
(***************************************************************************)
Reverse(s) == [i \in 1..Len(s) |-> s[Len(s) + 1 - i]]

\* merge of two sorted runs of positions; on a tie the left run goes first
RECURSIVE Merge(_, _, _)
Merge(l, r, key) ==
    IF l = <<>> THEN r
    ELSE IF r = <<>> THEN l
    ELSE IF key[Head(r)] < key[Head(l)]
         THEN <<Head(r)>> \o Merge(l, Tail(r), key)
         ELSE <<Head(l)>> \o Merge(Tail(l), r, key)

\* argsort(kind="mergesort"): the positions of key in ascending order, stable
RECURSIVE MergeSort(_, _)
MergeSort(idx, key) ==
    IF Len(idx) <= 1 THEN idx
    ELSE LET mid == Len(idx) \div 2
         IN  Merge(MergeSort(SubSeq(idx, 1, mid), key),
                   MergeSort(SubSeq(idx, mid + 1, Len(idx)), key), key)

\* a descending order made by reversing the ascending one
nargsort_reversed(cells, ascending) ==
    LET n        == Len(cells)
        isnum(i) == cells[i].kind # "nan"
        isnan(i) == cells[i].kind = "nan"
        idx      == [i \in 1..n |-> i]
        key      == [i \in 1..n |-> cells[i].val]
        sorted   == MergeSort(SelectSeq(idx, isnum), key)
    IN  (IF ascending THEN sorted ELSE Reverse(sorted)) \o SelectSeq(idx, isnan)

\* pandas.core.sorting.nargsort with na_position="last": NaN cells go last in
\* their order; descending reverses the input, sorts stably, reverses the result
nargsort(cells, ascending) ==
    LET n        == Len(cells)
        isnum(i) == cells[i].kind # "nan"
        isnan(i) == cells[i].kind = "nan"
        idx      == [i \in 1..n |-> i]
        key      == [i \in 1..n |-> cells[i].val]
        non_nan  == SelectSeq(idx, isnum)
        nan_idx  == SelectSeq(idx, isnan)
        indexer  == IF ascending
                    THEN MergeSort(non_nan, key)
                    ELSE Reverse(MergeSort(Reverse(non_nan), key))
    IN  indexer \o nan_idx

ColumnIndex(df, header) == CHOOSE i \in 1..Len(df.columns) : df.columns[i] = header

\* lines 295-296 / 303-304: sort_values(by=header, kind="mergesort",
\* ascending=..., inplace=True, ignore_index=True)
sort_values(df, header, ascending) ==
    LET c       == ColumnIndex(df, header)
        indexer == nargsort([r \in 1..Len(df.rows) |-> df.rows[r][c]], ascending)
    IN  [columns |-> df.columns,
         rows    |-> [r \in 1..Len(df.rows) |-> df.rows[indexer[r]]]]

\* lines 284-291: the Treeview shows the frame, every heading bound to
\* column_sort_asc
populate_treeview(df) == df
populate_headings(df) == [i \in 1..Len(df.columns) |-> "asc"]

\* a handler that leaves the heading bound to itself
column_sort_asc_norebind(df, header) ==
    LET sorted == sort_values(df, header, TRUE)
    IN  [df |-> sorted, tree |-> populate_treeview(sorted),
         cmds |-> populate_headings(sorted)]

\* lines 293-299
column_sort_asc(df, header) ==
    LET sorted == sort_values(df, header, TRUE)
    IN  [df |-> sorted, tree |-> populate_treeview(sorted),
         cmds |-> [populate_headings(sorted) EXCEPT ![ColumnIndex(sorted, header)] = "desc"]]

\* lines 301-306
column_sort_desc(df, header) ==
    LET sorted == sort_values(df, header, FALSE)
    IN  [df |-> sorted, tree |-> populate_treeview(sorted),
         cmds |-> [populate_headings(sorted) EXCEPT ![ColumnIndex(sorted, header)] = "asc"]]

NoClick == [col |-> <<>>, dir |-> "none"]

\* hits of flat documents: a sort key that may be missing, and a second field
GridDocs ==
    { <<Entry(KA, a), Entry(KB, b)>> : a \in ScalarValues, b \in ScalarValues }
        \cup { <<Entry(KB, Scalar(1))>> }

GridInit ==
    /\ gui = "running"
    /\ search_results = EmptyFrame          \* line 254
    /\ treeview = EmptyFrame
    /\ heading_cmd = <<>>
    /\ console_open = FALSE
    /\ last_click = NoClick
    /\ streak = 0
    /\ before_sort = <<>>

GridIdle ==
    /\ gui = "idle"
    /\ search_results = EmptyFrame
    /\ treeview = EmptyFrame
    /\ heading_cmd = <<>>
    /\ console_open = FALSE
    /\ last_click = NoClick
    /\ streak = 0
    /\ before_sort = <<>>

\* SearchBuilder.simple_query_search, lines 421-425: the button is disabled
\* while a console session is open; a new frame, built from the hits the
\* server returns, replaces the old one
SearchClicked ==
    /\ gui = "running"
    /\ ~console_open
    /\ search_results' = simple_query_search(response, pandas_build)
    /\ treeview' = populate_treeview(search_results')
    /\ heading_cmd' = populate_headings(search_results')
    /\ last_click' = NoClick
    /\ streak' = 0
    /\ before_sort' = <<>>
    /\ UNCHANGED <<gui, console_open>>
    /\ UNCHANGED <<rb_vars, sch_vars, sq_vars, con_vars, chk_vars>>

\* a click on the heading of Treeview column c runs the handler bound to it
HeadingClicked ==
    /\ gui = "running"
    /\ \E c \in 1..Len(treeview.columns) :
          LET header == treeview.columns[c]
              same   == last_click.dir # "none" /\ last_click.col = header /\ streak > 0
              out    == IF heading_cmd[c] = "asc"
                        THEN column_sort_asc(search_results, header)
                        ELSE column_sort_desc(search_results, header)
          IN  /\ same => streak < MaxClicks
              /\ search_results' = out.df
              /\ treeview' = out.tree
              /\ heading_cmd' = out.cmds
              /\ last_click' = [col |-> header, dir |-> heading_cmd[c]]
              /\ streak' = IF same THEN streak + 1 ELSE 1
              /\ before_sort' = search_results.rows
    /\ UNCHANGED <<gui, console_open>>
    /\ UNCHANGED <<rb_vars, sch_vars, sq_vars, con_vars, chk_vars>>

\* ResultsGrid.console_session, lines 308-314: the button disables itself
ConsoleSession ==
    /\ gui = "running"
    /\ ~console_open
    /\ console_open' = TRUE
    /\ UNCHANGED <<gui, search_results, treeview, heading_cmd, last_click, streak,
                    before_sort>>
    /\ UNCHANGED <<rb_vars, sch_vars, sq_vars, con_vars, chk_vars>>

\* PandasSession.delete_window, lines 172-179: populate() rebinds every heading
DeleteWindow ==
    /\ gui = "running"
    /\ console_open
    /\ console_open' = FALSE
    /\ treeview' = populate_treeview(search_results)
    /\ heading_cmd' = populate_headings(search_results)
    /\ streak' = 0
    /\ UNCHANGED <<gui, search_results, last_click, before_sort>>
    /\ UNCHANGED <<rb_vars, sch_vars, sq_vars, con_vars, chk_vars>>

(***************************************************************************)
(* The console session: PandasSession.init_session and send_input.         *)
(* Entry texts and console lines are TLA+ strings.                         *)
(***************************************************************************)
\* Python's `a or b` on two strings: a unless it is empty, else b
PyOr(a, b) == IF a # "" THEN a ELSE b

\* the lines init_session pushes before the first Return, lines 160-169
SessionLines ==
    << "import numpy as np",
       "import pandas as pd",
       "import matplotlib.pyplot as plt",
       "print('Search results imported as r')",
       "print('Numpy imported as np')",
       "print('Pandas imported as pd')",
       "print('Pyplot imported as plt')",
       "print('Happy hunting!')" >>

\* what the user may have typed when Return is pressed
EntryTexts == {"", "r.head()", "quit", "exit()", "quit()"}

\* a line that calls exit or quit makes the interpreter raise SystemExit,
\* the one exception InteractiveConsole does not catch
RaisesSystemExit(line) == line \in {"exit()", "quit()"}

\* InteractiveConsole.push: the line reaches the interpreter
push(buffer, line) ==
    [lines |-> Append(buffer, line), raised |-> RaisesSystemExit(line)]

\* PandasSession.send_input, lines 149-153; a SystemExit leaves the handler
\* before the entry is cleared and ends the program
send_input(text, buffer) ==
    IF text # PyOr("exit()", "quit()")
    THEN LET p == push(buffer, text) IN
         IF p.raised
         THEN [pc |-> "exited",  entry |-> text, console |-> p.lines]
         ELSE [pc |-> "session", entry |-> "",   console |-> p.lines]
    ELSE [pc |-> "session", entry |-> text, console |-> buffer]

NoSend == [pressed |-> FALSE, text |-> "", before |-> <<>>]

\* a session window just opened by init_session
ConInit ==
    /\ con_pc = "session"
    /\ entry_text = ""
    /\ console = SessionLines
    /\ sent = NoSend

ConIdle ==
    /\ con_pc = "idle"
    /\ entry_text = ""
    /\ console = <<>>
    /\ sent = NoSend

\* the user changes the text of the entry
EntryEdited ==
    /\ con_pc = "session"
    /\ \E t \in EntryTexts \ {entry_text} : entry_text' = t
    /\ sent' = NoSend
    /\ UNCHANGED <<con_pc, console>>
    /\ UNCHANGED <<rb_vars, sch_vars, sq_vars, grid_vars, chk_vars>>

\* <Return> in the entry, line 134
SendInput ==
    /\ con_pc = "session"
    /\ Len(console) < Len(SessionLines) + MaxSends
    /\ LET out == send_input(entry_text, console)
       IN  /\ con_pc' = out.pc
           /\ entry_text' = out.entry
           /\ console' = out.console
    /\ sent' = [pressed |-> TRUE, text |-> entry_text, before |-> console]
    /\ UNCHANGED <<rb_vars, sch_vars, sq_vars, grid_vars, chk_vars>>

(***************************************************************************)
(* The search form: the index and field checklists of SearchBuilder.       *)
(* A checklist is the sequence slaves() returns, in pack order.  Index     *)
(* names are sequences of characters, field paths are TLA+ strings.        *)
(***************************************************************************)
Checkbox(text, selected) == [text |-> text, selected |-> selected]

K_All  == <<"A","l","l">>
K__all == <<"_","a","l","l">>
Comma  == <<",">>

\* str.startswith with a one-character prefix
startswith(s, c) == Len(s) > 0 /\ s[1] = c

\* sep.join(xs); `empty` is the empty string of the texts' kind
RECURSIVE join(_, _, _)
join(xs, sep, empty) ==
    IF xs = <<>> THEN empty
    ELSE IF Len(xs) = 1 THEN xs[1]
    ELSE xs[1] \o sep \o join(Tail(xs), sep, empty)

\* a click toggles the 'selected' flag of checkbox i before its command runs
toggle(checklist, i) == [checklist EXCEPT ![i].selected = ~@]

\* self.all.state(['!selected']) on the "All" checkbox of a checklist
deselect_first(checklist) == [checklist EXCEPT ![1].selected = FALSE]

\* ScrollingChecklist.uncheck_rest, lines 224-226
uncheck_rest(checklist) ==
    IF checklist[1].selected
    THEN [i \in 1..Len(checklist) |->
            IF i = 1 THEN checklist[i] ELSE [checklist[i] EXCEPT !.selected = FALSE]]
    ELSE checklist

\* ScrollingChecklist.return_checked, lines 230-234
return_checked(checklist, sep, empty) ==
    LET rest    == SubSeq(checklist, 2, Len(checklist))
        checked == SelectSeq(rest, LAMBDA checkbox : checkbox.selected)
    IN  join([i \in 1..Len(checked) |-> checked[i].text], sep, empty)

\* the checkboxes get_index_names packs, lines 370-381
index_boxes(listing) ==
    LET shown == SelectSeq(listing, LAMBDA entry : ~startswith(entry, "."))
    IN  <<Checkbox(K_All, FALSE)>> \o [i \in 1..Len(shown) |-> Checkbox(shown[i], FALSE)]

\* the checkboxes get_field_names packs, lines 388-408; both branches of the
\* '@' test create the same checkbox
field_boxes(maplist) ==
    <<Checkbox("All", FALSE)>> \o [i \in 1..Len(maplist) |-> Checkbox(maplist[i], FALSE)]

\* a click on checkbox i of the checklist `own`.  The first checkbox runs
\* uncheck_rest (lines 371, 389); any other runs self.all.state(['!selected'])
\* (lines 378, 399, 405), where self.all is read when the click happens and
\* is the "All" of `own` or of the `other` checklist
box_clicked(own, other, i, all_is_own) ==
    LET t == toggle(own, i) IN
    IF i = 1 THEN [own |-> uncheck_rest(t), other |-> other]
    ELSE IF all_is_own THEN [own |-> deselect_first(t), other |-> other]
    ELSE [own |-> t, other |-> deselect_first(other)]

\* the selectors SearchBuilder.simple_query_search computes, lines 413-420
selected_indices(checklist) ==
    IF checklist[1].selected THEN K__all ELSE return_checked(checklist, Comma, <<>>)

selected_fields(checklist) ==
    IF checklist[1].selected THEN "*" ELSE return_checked(checklist, ",", "")

\* index names the server may list; one is internal to Elastic
IndexNames == { <<"i","1">>, <<"i","2">>, <<".","k">> }

IndexListings == { l \in SeqsUpTo(IndexNames, MaxIndices) : IsInjective(l) }

\* mapping responses the server may give to Get Field Names
FormMappings ==
    { << <<"i1", <<Leaf("a")>> >> >>,
      << <<"i1", <<Leaf("a"), Group("b", <<Leaf("a")>>)>> >> >>,
      << <<"i1", <<Leaf("a")>> >>, <<"i2", <<Leaf("a")>> >> >> }

NoSearch == [made |-> FALSE, indices |-> <<>>, fields |-> "",
             checked_indices |-> <<>>, checked_fields |-> ""]

\* the form as create_widgets leaves it, lines 341-350
ChkInit ==
    /\ chk_pc = "running"
    /\ server_indices \in IndexListings
    /\ indices_checklist = <<>>
    /\ fields_checklist = <<>>
    /\ self_all = "unset"
    /\ get_fields_state = "disabled"        \* line 346
    /\ selectors = NoSearch

ChkIdle ==
    /\ chk_pc = "idle"
    /\ server_indices = <<>>
    /\ indices_checklist = <<>>
    /\ fields_checklist = <<>>
    /\ self_all = "unset"
    /\ get_fields_state = "disabled"
    /\ selectors = NoSearch

\* SearchBuilder.get_index_names, lines 369-383
GetIndexNames ==
    /\ chk_pc = "running"
    /\ indices_checklist' = index_boxes(server_indices)
    /\ self_all' = "indices"
    /\ get_fields_state' = "active"
    /\ UNCHANGED <<chk_pc, server_indices, fields_checklist, selectors>>
    /\ UNCHANGED <<rb_vars, sch_vars, sq_vars, grid_vars, con_vars>>

\* SearchBuilder.get_field_names, lines 387-409
GetFieldNames ==
    /\ chk_pc = "running"
    /\ get_fields_state = "active"
    /\ \E rj \in FormMappings :
          fields_checklist' = field_boxes(index_field_names(rj))
    /\ self_all' = "fields"
    /\ UNCHANGED <<chk_pc, server_indices, indices_checklist, get_fields_state, selectors>>
    /\ UNCHANGED <<rb_vars, sch_vars, sq_vars, grid_vars, con_vars>>

\* a click on a checkbox of the index checklist
IndexBoxClicked ==
    /\ chk_pc = "running"
    /\ \E i \in 1..Len(indices_checklist) :
          LET out == box_clicked(indices_checklist, fields_checklist, i,
                                 self_all = "indices")
          IN  /\ indices_checklist' = out.own
              /\ fields_checklist' = out.other
    /\ UNCHANGED <<chk_pc, server_indices, self_all, get_fields_state, selectors>>
    /\ UNCHANGED <<rb_vars, sch_vars, sq_vars, grid_vars, con_vars>>

\* a click on a checkbox of the field checklist
FieldBoxClicked ==
    /\ chk_pc = "running"
    /\ \E i \in 1..Len(fields_checklist) :
          LET out == box_clicked(fields_checklist, indices_checklist, i,
                                 self_all = "fields")
          IN  /\ fields_checklist' = out.own
              /\ indices_checklist' = out.other
    /\ UNCHANGED <<chk_pc, server_indices, self_all, get_fields_state, selectors>>
    /\ UNCHANGED <<rb_vars, sch_vars, sq_vars, grid_vars, con_vars>>

\* SearchBuilder.simple_query_search, lines 413-425.  slaves()[0] raises
\* IndexError on a checklist that was never filled and the handler ends there
FormSearch ==
    /\ chk_pc = "running"
    /\ gui = "running"
    /\ ~console_open
    /\ indices_checklist # <<>>
    /\ fields_checklist # <<>>
    /\ selectors' = [made |-> TRUE,
                     indices |-> selected_indices(indices_checklist),
                     fields |-> selected_fields(fields_checklist),
                     checked_indices |-> return_checked(indices_checklist, Comma, <<>>),
                     checked_fields |-> return_checked(fields_checklist, ",", "")]
    /\ search_results' = simple_query_search(response, pandas_build)
    /\ treeview' = populate_treeview(search_results')
    /\ heading_cmd' = populate_headings(search_results')
    /\ last_click' = NoClick
    /\ streak' = 0
    /\ before_sort' = <<>>
    /\ UNCHANGED <<gui, console_open>>
    /\ UNCHANGED <<chk_pc, server_indices, indices_checklist, fields_checklist,
                    self_all, get_fields_state>>
    /\ UNCHANGED <<rb_vars, sch_vars, sq_vars, con_vars>>

(***************************************************************************)
(* Specifications                                                          *)
(***************************************************************************)
RBNext == BuildRequest \/ LoadRequest
InitRequest == RBInit /\ SchIdle /\ SQIdle /\ GridIdle /\ ConIdle /\ ChkIdle
SpecRequest == InitRequest /\ [][RBNext]_vars

SchNext == IndexFieldNames
InitSchema == RBIdle /\ SchInit /\ SQIdle /\ GridIdle /\ ConIdle /\ ChkIdle
SpecSchema == InitSchema /\ [][SchNext]_vars

SQNext == SimpleQuerySearch
InitSearch == RBIdle /\ SchIdle /\ SQInit /\ GridIdle /\ ConIdle /\ ChkIdle
SpecSearch == InitSearch /\ [][SQNext]_vars

\* the running program: searches, heading clicks, console sessions
\* the installed pandas and the hits the server holds for the query
Environment ==
    /\ sq_pc = "idle"
    /\ pandas_build \in PandasBuilds
    /\ response \in SeqsUpTo(GridDocs, MaxGridHits)
    /\ results = EmptyFrame

Init == RBIdle /\ SchIdle /\ Environment /\ GridInit /\ ConIdle /\ ChkIdle
Next == SearchClicked \/ HeadingClicked \/ ConsoleSession \/ DeleteWindow
Spec == Init /\ [][Next]_vars

\* a console session: the entry is edited and Return is pressed
ConNext == EntryEdited \/ SendInput
InitConsole == RBIdle /\ SchIdle /\ SQIdle /\ GridIdle /\ ConInit /\ ChkIdle
SpecConsole == InitConsole /\ [][ConNext]_vars

\* the search form: the lists are filled, boxes are clicked, searches are run
\* against a server that holds no documents
ChkNext ==
    GetIndexNames \/ GetFieldNames \/ IndexBoxClicked \/ FieldBoxClicked \/ FormSearch
InitChecklist == RBIdle /\ SchIdle /\ SQIdle /\ GridInit /\ ConIdle /\ ChkInit
SpecChecklist == InitChecklist /\ [][ChkNext]_vars

(***************************************************************************)
(* Claims                                                                  *)
(***************************************************************************)
\* C1: the request body deserializes to an object whose size is 100 and whose
\* query.multi_match.query is the search term, unchanged, for every term and
\* every fields string.
C1_RequestRoundTrip ==
    rb_pc = "loaded" =>
        LET size  == JGet(body_doc, K_size)
            query == JGet(JGet(JGet(body_doc, K_query), K_multi_match), K_query)
        IN  /\ body_doc.t = "obj"
            /\ size.t = "num" /\ size.v = 100
            /\ query.t = "str" /\ query.v = search_term

C1_Witness ==
    /\ rb_pc = "loaded"
    /\ search_term = <<"\"", "\\">>
    /\ fields = <<"*">>
    /\ JGet(body_doc, K_size).t = "num"

\* the paths of one index in first-seen order, each once
RECURSIVE Dedupe(_)
Dedupe(s) ==
    IF s = <<>> THEN <<>>
    ELSE LET front == Dedupe(SubSeq(s, 1, Len(s) - 1))
             last  == s[Len(s)]
         IN  IF last \in Range(front) THEN front ELSE Append(front, last)

\* C2: the field list holds no FieldPath twice and lists the paths in
\* first-seen order across the indices of the mapping response.
C2_NoDuplicates ==
    sch_pc = "done" =>
        /\ IsInjective(fieldlist)
        /\ fieldlist = Dedupe(index_field_names(requestjson))

\* the full dotted path of every leaf below `prefix`, depth first, document order
RECURSIVE LeafPaths(_, _)
LeafPaths(prefix, dict) ==
    IF dict = <<>> THEN <<>>
    ELSE LET n == Head(dict) IN
         (IF n.hasProps THEN LeafPaths(prefix \o n.name \o ".", n.props)
                        ELSE <<prefix \o n.name>>)
         \o LeafPaths(prefix, Tail(dict))

\* the full dotted path of every internal (group) node below `prefix`
RECURSIVE GroupPaths(_, _)
GroupPaths(prefix, dict) ==
    IF dict = <<>> THEN {}
    ELSE LET n == Head(dict) IN
         (IF n.hasProps
          THEN {prefix \o n.name} \cup GroupPaths(prefix \o n.name \o ".", n.props)
          ELSE {})
         \cup GroupPaths(prefix, Tail(dict))

\* no child of a top-level group is itself a group
OneGroupingLevel(dict) ==
    \A i \in 1..Len(dict) : \A k \in 1..Len(dict[i].props) : ~dict[i].props[k].hasProps

\* C3: for a single index whose property tree has at most one level of
\* grouping, the field list is, in document order, each top-level leaf's name
\* and parent.child for each child of each top-level group, and nothing else.
C3_OneLevelFlatten ==
    (sch_pc = "done" /\ Len(requestjson) = 1 /\ OneGroupingLevel(requestjson[1][2])) =>
        /\ fieldlist = LeafPaths("", requestjson[1][2])
        /\ Range(fieldlist) \cap GroupPaths("", requestjson[1][2]) = {}

\* the spec's scenario user{name,age}, ts with the model's names: a{a,b}, b
C3_Witness ==
    /\ sch_pc = "done"
    /\ requestjson = << <<"i1", <<Group("a", <<Leaf("a"), Leaf("b")>>), Leaf("b")>> >> >>
    /\ fieldlist = <<"a.a", "a.b", "b">>

\* C4: for property trees of any depth, the emitted paths are exactly the full
\* dotted paths of the leaves, and none names an internal group node.
C4_AllDepths ==
    (sch_pc = "done" /\ Len(requestjson) = 1) =>
        /\ Range(fieldlist) = Range(LeafPaths("", requestjson[1][2]))
        /\ Range(fieldlist) \cap GroupPaths("", requestjson[1][2]) = {}

\* the cells of row r that are not NaN, as a set of <<column, value>>
RowPairs(df, r) ==
    { <<df.columns[i], df.rows[r][i]>> :
        i \in {j \in 1..Len(df.columns) : df.rows[r][j].kind # "nan"} }

DictPairs(d) == { <<d[i].key, d[i].v>> : i \in 1..Len(d) }

\* at most one level of nesting: no entry of a nested mapping is a mapping
OneNestingLevel(doc) ==
    \A i \in 1..Len(doc) : doc[i].v.kind = "dict" =>
        \A k \in 1..Len(doc[i].v.items) : doc[i].v.items[k].v.kind # "dict"

\* what C5 expects, in document order: key -> value for a top-level scalar,
\* a.b -> value for entry b of the mapping under a
RECURSIVE ExpectedEntries(_)
ExpectedEntries(doc) ==
    IF doc = <<>> THEN <<>>
    ELSE LET f == Head(doc) IN
         (IF f.v.kind = "dict"
          THEN [k \in 1..Len(f.v.items) |->
                   Entry(f.key \o Dot \o f.v.items[k].key, f.v.items[k].v)]
          ELSE <<Entry(f.key, f.v)>>)
         \o ExpectedEntries(Tail(doc))

\* C5 as stated: for a hit with at most one level of nesting the row holds
\* exactly each top-level scalar under its key and each nested entry under
\* "a.b", every one with its own value.
C5_OneLevelRow ==
    (sq_pc = "done" /\ Len(response) = 1 /\ OneNestingLevel(response[1])) =>
        RowPairs(results, 1) = DictPairs(ExpectedEntries(response[1]))

\* C5 amended: the row's keys are exactly those keys, and each key holds the
\* value of the last entry, in document order, that computes to that key.
C5_OneLevelRowLastWins ==
    (sq_pc = "done" /\ Len(response) = 1 /\ OneNestingLevel(response[1])) =>
        LET exp == ExpectedEntries(response[1])
            last(k) == exp[CHOOSE i \in 1..Len(exp) :
                              /\ exp[i].key = k
                              /\ \A j \in (i + 1)..Len(exp) : exp[j].key # k].v
        IN  RowPairs(results, 1) = { <<exp[i].key, last(exp[i].key)>> : i \in 1..Len(exp) }

\* a top-level "a.b" meets entry b of the mapping under a; the later one wins
C5_Witness ==
    /\ sq_pc = "done"
    /\ response = << <<Entry(KAB, Scalar(1)),
                       Entry(KA, Dict(<<Entry(KA, Scalar(1)), Entry(KB, Scalar(2))>>))>> >>
    /\ results.columns = <<KAB, <<"a", ".", "a">> >>
    /\ results.rows = << <<Scalar(2), Scalar(1)>> >>

\* every <<full dotted path, value>> of a leaf of the document, at any depth
RECURSIVE LeafPairs(_, _)
LeafPairs(prefix, doc) ==
    IF doc = <<>> THEN {}
    ELSE LET f == Head(doc)
             path == IF prefix = <<>> THEN f.key ELSE prefix \o Dot \o f.key
         IN  (IF f.v.kind = "dict" THEN LeafPairs(path, f.v.items) ELSE {<<path, f.v>>})
             \cup LeafPairs(prefix, Tail(doc))

\* C6: at any nesting depth every value of the flattened row is a leaf value,
\* never a mapping, stored under the dot-joined path from the root to it.
C6_LeavesAtAnyDepth ==
    (sq_pc = "done" /\ Len(response) = 1) =>
        \A p \in RowPairs(results, 1) :
            /\ p[2].kind # "dict"
            /\ p \in LeafPairs(<<>>, response[1])

\* C7: the table has one row per hit, row i being the flattening of hit i,
\* in the order of the response, with nothing dropped or merged.
C7_RowPerHit ==
    sq_pc = "done" =>
        /\ Len(results.rows) = Len(response)
        /\ \A i \in 1..Len(response) :
              /\ Len(results.rows[i]) = Len(results.columns)
              /\ RowPairs(results, i) = DictPairs(hit_flatten(response[i]))

\* two equal hits, and an empty hit followed by one with a field
C7_Witness ==
    /\ sq_pc = "done"
    /\ Len(response) = 2
    /\ \/ response[1] = response[2] /\ response[1] # <<>>
       \/ response[1] = <<>> /\ response[2] # <<>>
    /\ Len(results.rows) = 2

\* C8: the columns are the union of the flattened keys of all hits in
\* first-seen order, and a row holds an empty cell where it lacks a column.
C8_ColumnsFirstSeen ==
    sq_pc = "done" =>
        /\ results.columns =
               Dedupe(Flatten([i \in 1..Len(response) |-> Keys(hit_flatten(response[i]))]))
        /\ \A i \in 1..Len(response) : \A c \in 1..Len(results.columns) :
               (~HasKey(hit_flatten(response[i]), results.columns[c]))
                   => results.rows[i][c] = NaN

\* the rows whose cell in column c equals v, in table order
RowsWith(rows, c, v) ==
    LET has(r) == r[c] = v IN SelectSeq(rows, has)

\* C9: a heading click sorts stably, ascending or descending: rows with equal
\* values in the clicked column keep their relative order, and the rows are
\* the same multiset as before.
C9_StableSort ==
    (gui = "running" /\ last_click.dir # "none") =>
        LET c == ColumnIndex(search_results, last_click.col)
        IN  /\ Len(search_results.rows) = Len(before_sort)
            /\ \A v \in ScalarValues \cup {NaN} :
                  RowsWith(search_results.rows, c, v) = RowsWith(before_sort, c, v)

\* a descending sort that moved rows and kept two equal keys in their order
C9_Witness ==
    /\ gui = "running"
    /\ last_click = [col |-> KA, dir |-> "desc"]
    /\ search_results.columns = <<KA, KB>>
    /\ before_sort = << <<Scalar(1), Scalar(1)>>, <<Scalar(2), Scalar(2)>>,
                        <<Scalar(2), Scalar(1)>> >>
    /\ search_results.rows = << <<Scalar(2), Scalar(2)>>, <<Scalar(2), Scalar(1)>>,
                                <<Scalar(1), Scalar(1)>> >>

\* C10: consecutive clicks on one heading alternate, starting ascending: the
\* first sorts ascending, the second descending, the third ascending, ...
C10_Alternates ==
    (gui = "running" /\ streak > 0) =>
        last_click.dir = (IF streak % 2 = 1 THEN "asc" ELSE "desc")

C10_Witness ==
    /\ gui = "running"
    /\ streak = 3
    /\ last_click = [col |-> KB, dir |-> "asc"]
    /\ Len(search_results.rows) > 1

\* C11: send_input catches both exit() and quit(): when Return is pressed on
\* an entry text that is exactly "exit()" or exactly "quit()" nothing is pushed
\* to the console; every other entry text is pushed exactly once and the entry
\* is then cleared.
C11_CatchesExitAndQuit ==
    sent.pressed =>
        IF sent.text \in {"exit()", "quit()"}
        THEN console = sent.before
        ELSE console = Append(sent.before, sent.text) /\ entry_text = ""

AnyEntrySelected(checklist) == \E i \in 2..Len(checklist) : checklist[i].selected

Exclusive(checklist) ==
    checklist # <<>> => ~(checklist[1].selected /\ AnyEntrySelected(checklist))

\* C12: in each checklist, after any sequence of Get Indices, Get Field Names
\* and checkbox clicks, the "All" checkbox and a named entry of the same list
\* are never both selected, so a search uses "_all" / "*" only when no index /
\* field of that list is checked.
C12_AllExcludesEntries ==
    /\ Exclusive(indices_checklist)
    /\ Exclusive(fields_checklist)
    /\ selectors.made =>
          /\ selectors.indices = K__all => selectors.checked_indices = <<>>
          /\ selectors.fields = "*" => selectors.checked_fields = ""

====
